---- MODULE Spec2Model ----
(***************************************************************************)
(* The indexing and retrieval pipeline of src/app/page.tsx (the route      *)
(* handler part, lines 461-802): crawlSiteRecursive, scrapePage,           *)
(* embedText, ensurePageIndexed, ensurePagesIndexed, searchDocuments and   *)
(* the POST handler with its module-level flag indexingStarted.            *)
(*                                                                         *)
(* Every async function is a frame on the call stack of the task that runs *)
(* it; a frame's pc names the await it is suspended at.  One action is the *)
(* resumption of one await (with the outcome of the awaited external call  *)
(* chosen nondeterministically) followed by the synchronous code up to the *)
(* next await.  The external collaborators (browser, embedding model,      *)
(* store) may fail; every failure draws on the budget `faults`.            *)
(***************************************************************************)
EXTENDS Integers, Sequences, FiniteSets, TLC

\* ------------------------------------------------------------------ bounds
MaxDepth == 3          \* crawl depths tried by the crawl harness: 0..MaxDepth
MaxFaults == 2         \* failures of external calls per behaviour
MaxRetries == 3        \* retries tried by the embedText harness: 0..MaxRetries
NReq == 2              \* POST requests per process
SysFaults == 1         \* failures of external calls in a run of the whole process
MaxToolCalls == 1      \* tool calls the language model makes in one conversation
MaxRows == 2           \* rows in the store when searchDocuments is tried alone
MaxPad == 2          \* longest run of white space at an end of a window

\* ------------------------------------------------------- program constants
DefaultDepth == 2      \* crawlSiteRecursive(browser, baseUrl, depth = 2, ...)
DefaultRetries == 5    \* embedText(value, retries = 5, ...)
DefaultDelay == 2000   \* embedText(value, retries, delay = 2000)
DefaultSize == 800     \* chunkText(text, size = 800, ...)
DefaultOverlap == 200  \* chunkText(text, size, overlap = 200)
MinChunk == 50         \* if (piece.length > 50)
StatusTooMany == 429   \* e.statusCode === 429
StepLimit == 10        \* stopWhen: stepCountIs(10)

\* -------------------------------------------------------------------- URLs
\* A URL string is a sequence of tokens: "H" is the text "https://host" of the
\* site, "E" a continuation of the host name (".evil.test"), "O" the text of
\* an unrelated origin, "/" the slash that ends the origin, the rest the path.
uS == <<"H", "/">>
uA == <<"H", "/", "a">>
uB == <<"H", "/", "b">>
uX == <<"H", "E", "/">>
uY == <<"O", "/">>
uC == <<"H", "/", "c">>
Hrefs == {uS, uA, uB, uC, uX, uY}

RECURSIVE OriginLen(_, _)
OriginLen(u, k) ==
  IF k > Len(u) \/ u[k] = "/" THEN k - 1 ELSE OriginLen(u, k + 1)

\* window.location.origin of a document whose location is u
Origin(u) == SubSeq(u, 1, OriginLen(u, 1))

\* String.prototype.startsWith
StartsWith(str, prefix) ==
  /\ Len(prefix) <= Len(str)
  /\ SubSeq(str, 1, Len(prefix)) = prefix

\* Array.from(new Set(xs)): first occurrences, in order
RECURSIVE Dedupe(_, _)
Dedupe(xs, seen) ==
  IF xs = <<>> THEN <<>>
  ELSE IF Head(xs) \in seen THEN Dedupe(Tail(xs), seen)
  ELSE <<Head(xs)>> \o Dedupe(Tail(xs), seen \cup {Head(xs)})

\* The page.evaluate callback of crawlSiteRecursive on a document at
\* location loc holding the anchors hrefs.
ExtractLinks(loc, hrefs) ==
  LET keep(h) == StartsWith(h, Origin(loc))
  IN  Dedupe(SelectSeq(hrefs, keep), {})

Range(f) == {f[x] : x \in DOMAIN f}

NoDuplicates(xs) == \A i, j \in DOMAIN xs : xs[i] = xs[j] => i = j

Front(xs) == SubSeq(xs, 1, Len(xs) - 1)

\* ------------------------------------------------------------------- tasks
\* Request task r runs the r-th POST; run task NReq + r runs the
\* ensurePagesIndexed promise that this POST launched.  T0 is the first run
\* task; the harnesses of the single functions run their call on it.
ReqTasks == 1..NReq
RunTasks == (NReq + 1)..(2 * NReq)
Tasks == 1..(2 * NReq)
T0 == NReq + 1

VARIABLES
  site,       \* the name of the web the crawler is in (see Webs)
  content,    \* the name of the text of the seed page (see Texts)
  documents,  \* the rows of the documents table, in insertion order
  nEmbed,     \* calls of embed() made so far
  sleeps,     \* task -> the sleeps of its latest embedText call: [delay, err]
  driver,     \* the arguments of the call a harness makes
  requests,   \* request number -> the body the POST receives
  userLeads,  \* the rows of the user_leads table, in insertion order
  indexingStarted,  \* line 608
  indexLog,   \* task -> what its run did: [crawled, urls, tried, caught]
  faults,     \* failures of external calls still allowed
  stack,      \* task -> its call stack of frames, the running one last
  result,     \* task -> how its last finished call ended
  visited,    \* task -> the visited set of its crawl (line 487)
  browser,    \* task -> the browser its run launched
  pages       \* every page opened so far: [task, url, by, open, closes, read]

vars == <<site, content, documents, nEmbed, sleeps, driver, requests, userLeads,
          indexingStarted, indexLog, faults, stack, result, visited, browser, pages>>

\* the inputs, fixed by the initial state
world == <<site, content, requests, driver>>
\* what only the request handler and the run's orchestration write
handlerVars == <<userLeads, indexingStarted, indexLog>>

Top(t) == stack[t][Len(stack[t])]
Running(t, fn, pc) ==
  /\ stack[t] # <<>>
  /\ Top(t).fn = fn
  /\ Top(t).pc = pc

\* A frame at one of these pcs goes on in a microtask: it was just called, or
\* the async function it awaits has ended.  The event loop runs microtasks
\* before it delivers the resolution of any external call or timer.
MicrotaskPcs ==
  {"entry", "awaitChild", "awaitScrape", "awaitEmbed", "awaitIndex", "awaitCrawl",
   "awaitSearch", "awaitTool", "stream", "first", "second"}
Quiet == \A t \in Tasks : stack[t] # <<>> => Top(t).pc \notin MicrotaskPcs

\* the external call (or timer) that fn awaits at pc is resolved or rejected
Resolves(t, fn, pc) == Running(t, fn, pc) /\ Quiet

NoResult == [kind |-> "none", val |-> <<>>]
Returned(v) == [kind |-> "return", val |-> v]
Thrown(e) == [kind |-> "throw", val |-> e]

\* the call task t was started for has returned or thrown
Done(t) == stack[t] = <<>> /\ result[t].kind # "none"

\* the running function returns or throws: its frame goes, the awaiting
\* caller (if any) is the running frame again
Pop(t, res) ==
  /\ stack' = [stack EXCEPT ![t] = Front(@)]
  /\ result' = [result EXCEPT ![t] = res]
\* the running function goes on to its next await
Goto(t, f) ==
  /\ stack' = [stack EXCEPT ![t] = Front(@) \o <<f>>]
  /\ UNCHANGED result
\* the running function calls callee and awaits it
Call(t, f, callee) ==
  /\ stack' = [stack EXCEPT ![t] = Front(@) \o <<f, callee>>]
  /\ UNCHANGED result

\* an external call succeeds, or fails while failures are left
Ok == UNCHANGED faults
Fail == faults > 0 /\ faults' = faults - 1

\* ----------------------------------------------------------------- browser
NoBrowser == [state |-> "none", closes |-> 0]

\* browser.newPage() resolved: the page is the next entry of pages
OpenPage(t, url, by) ==
  pages' = Append(pages, [task |-> t, url |-> url, by |-> by,
                          open |-> TRUE, closes |-> 0, read |-> FALSE])
\* page.evaluate() resolved
ReadPage(p) ==
  pages' = [pages EXCEPT ![p].read = TRUE]
\* page.close() resolved
ClosePage(p) ==
  pages' = [pages EXCEPT ![p].open = FALSE, ![p].closes = @ + 1]
\* page.close() rejected: the call was made, the page is as it was
ClosePageFailed(p) ==
  pages' = [pages EXCEPT ![p].closes = @ + 1]

\* ------------------------------------------------------------ the web
Doc(loc, hrefs) == [loc |-> loc, hrefs |-> hrefs]
Web(s, a, b, x) ==
  (uS :> Doc(uS, s)) @@ (uA :> Doc(uA, a)) @@ (uB :> Doc(uB, b))
    @@ (uX :> Doc(uX, x)) @@ (uY :> Doc(uY, <<uY>>))

WebCycle == Web(<<uA, uB>>, <<uS, uB>>, <<uA, uS>>, <<>>)
WebSelf == Web(<<uS, uA, uA, uS>>, <<uA>>, <<>>, <<>>)
WebChain == Web(<<uA>>, <<uB>>, <<uS>>, <<>>)
WebDiamond == Web(<<uA, uB>>, <<uB>>, <<uA>>, <<>>)
WebLone == Web(<<uS>>, <<>>, <<>>, <<>>)
WebForeign == Web(<<uY, uX, uA>>, <<uY>>, <<>>, <<uX, uS, uA>>)
\* the page c is two links from the seed through b, three through a and b
WebShortcut == Web(<<uA, uB>>, <<uB>>, <<uC>>, <<>>) @@ (uC :> Doc(uC, <<>>))
WebRedirect == [Web(<<uA, uB>>, <<>>, <<uS>>, <<>>) EXCEPT ![uA] = Doc(uY, <<uY, uS>>)]
Webs ==
  [cycle |-> WebCycle, self |-> WebSelf, chain |-> WebChain, diamond |-> WebDiamond,
   foreign |-> WebForeign, redirect |-> WebRedirect, lone |-> WebLone,
   shortcut |-> WebShortcut]

\* the document goto(url) lands on: its location and its anchors
Document(url) == Webs[site][url]

\* ------------------------------------------------------- page texts
TextShort == [id |-> "short", len |-> 40, spaces |-> {10}]
TextOne == [id |-> "one", len |-> 300, spaces |-> {100}]
TextTwo == [id |-> "two", len |-> 700, spaces |-> {599, 600}]
Texts == [short |-> TextShort, one |-> TextOne, two |-> TextTwo]

\* the normalized text scrapePage extracts from url: the seed page has the
\* text named by content, the page a two chunks, every other page none
TextOf(url) ==
  IF url = uS THEN Texts[content] ELSE IF url = uA THEN TextTwo ELSE TextShort

\* what the crawler never touches
CrawlFrameVars == <<world, handlerVars, documents, nEmbed, sleeps>>

\* ------------------------------------------------------------------ errors
Err(kind) == [kind |-> kind, hasStatus |-> FALSE, status |-> 0, exhausted |-> FALSE]

\* ------------------------------------------------------ crawlSiteRecursive
CrawlFrame(url, depth) ==
  [fn |-> "crawlSiteRecursive", pc |-> "entry", url |-> url, depth |-> depth,
   page |-> 0, links |-> <<>>, i |-> 1, newLinks |-> <<>>]

\* line 488: the call contributes nothing
CrawlSkipsDepthOnly(depth, url, vis) == depth <= 0
CrawlSkips(depth, url, vis) == depth <= 0 \/ url \in vis

\* lines 488-493: the guard, visited.add, and the call of browser.newPage()
CrawlEntry(t) ==
  /\ Running(t, "crawlSiteRecursive", "entry")
  /\ LET f == Top(t) IN
       IF CrawlSkips(f.depth, f.url, visited[t])
       THEN /\ Pop(t, Returned(<<>>))
            /\ UNCHANGED visited
       ELSE /\ visited' = [visited EXCEPT ![t] = @ \cup {f.url}]
            /\ Goto(t, [f EXCEPT !.pc = "newPage"])
  /\ UNCHANGED <<CrawlFrameVars, faults, browser, pages>>

\* line 493 resolves; on rejection the catch block finds page undefined
\* (lines 511-514) and returns []
CrawlNewPage(t) ==
  /\ Resolves(t, "crawlSiteRecursive", "newPage")
  /\ LET f == Top(t) IN
       \/ /\ browser[t].state = "open"
          /\ Ok
          /\ OpenPage(t, f.url, "crawl")
          /\ Goto(t, [f EXCEPT !.pc = "goto", !.page = Len(pages) + 1])
       \/ /\ Fail
          /\ Pop(t, Returned(<<>>))
          /\ UNCHANGED pages
  /\ UNCHANGED <<CrawlFrameVars, visited, browser>>

\* line 494 resolves; on rejection the catch block calls page.close()
CrawlGoto(t) ==
  /\ Resolves(t, "crawlSiteRecursive", "goto")
  /\ LET f == Top(t) IN
       \/ Ok /\ Goto(t, [f EXCEPT !.pc = "evaluate"])
       \/ Fail /\ Goto(t, [f EXCEPT !.pc = "catchClose"])
  /\ UNCHANGED <<CrawlFrameVars, visited, browser, pages>>

\* lines 496-504: evaluate resolves with the links, page.close() is called
CrawlEvaluate(t) ==
  /\ Resolves(t, "crawlSiteRecursive", "evaluate")
  /\ LET f == Top(t) IN
       \/ /\ Ok
          /\ ReadPage(f.page)
          /\ Goto(t, [f EXCEPT !.pc = "close",
                       !.links = ExtractLinks(Document(f.url).loc, Document(f.url).hrefs)])
       \/ /\ Fail
          /\ Goto(t, [f EXCEPT !.pc = "catchClose"])
          /\ UNCHANGED pages
  /\ UNCHANGED <<CrawlFrameVars, visited, browser>>

\* (a recursion that passes depth on as it is)
CrawlLoopSameDepth(t, f) ==
  IF f.i <= Len(f.links)
  THEN Call(t, [f EXCEPT !.pc = "awaitChild"], CrawlFrame(f.links[f.i], f.depth))
  ELSE Pop(t, Returned(f.newLinks))

\* lines 507-510: the for loop at link i: recurse, or return newLinks
CrawlLoop(t, f) ==
  IF f.i <= Len(f.links)
  THEN Call(t, [f EXCEPT !.pc = "awaitChild"], CrawlFrame(f.links[f.i], f.depth - 1))
  ELSE Pop(t, Returned(f.newLinks))

\* line 504 resolves, lines 506-510 follow
CrawlClose(t) ==
  /\ Resolves(t, "crawlSiteRecursive", "close")
  /\ LET f == Top(t) IN
       \/ /\ Ok
          /\ ClosePage(f.page)
          /\ CrawlLoop(t, [f EXCEPT !.newLinks = <<f.url>>, !.i = 1])
       \/ /\ Fail
          /\ ClosePageFailed(f.page)
          /\ Goto(t, [f EXCEPT !.pc = "catchClose"])
  /\ UNCHANGED <<CrawlFrameVars, visited, browser>>

\* line 508: the recursive call has ended
CrawlChildDone(t) ==
  /\ Running(t, "crawlSiteRecursive", "awaitChild")
  /\ LET f == Top(t) IN
       IF result[t].kind = "return"
       THEN CrawlLoop(t, [f EXCEPT !.newLinks = @ \o result[t].val, !.i = @ + 1])
       ELSE Goto(t, [f EXCEPT !.pc = "catchClose"])
  /\ UNCHANGED <<CrawlFrameVars, faults, visited, browser, pages>>

\* (a catch block that returns [] and leaves the page alone)
CrawlCatchNoClose(t) ==
  /\ Resolves(t, "crawlSiteRecursive", "catchClose")
  /\ Pop(t, Returned(<<>>))
  /\ UNCHANGED <<CrawlFrameVars, faults, visited, browser, pages>>

\* lines 511-515: page.close() of the catch block resolves or rejects
CrawlCatchClose(t) ==
  /\ Resolves(t, "crawlSiteRecursive", "catchClose")
  /\ LET f == Top(t) IN
       \/ /\ Ok
          /\ ClosePage(f.page)
          /\ Pop(t, Returned(<<>>))
       \/ /\ Fail
          /\ ClosePageFailed(f.page)
          /\ Pop(t, Thrown(Err("close")))
  /\ UNCHANGED <<CrawlFrameVars, visited, browser>>

CrawlStep(t) ==
  \/ CrawlEntry(t)
  \/ CrawlNewPage(t)
  \/ CrawlGoto(t)
  \/ CrawlEvaluate(t)
  \/ CrawlClose(t)
  \/ CrawlChildDone(t)
  \/ CrawlCatchClose(t)

\* --------------------------------------------------------------- chunkText
\* A normalized page text is known by its length and the positions (from 0)
\* of its white space; a piece of it by the text and the slice [from, to).
\* String.prototype.trim on the slice [lo, hi) of text
\* the start of the slice without its leading white space: the first
\* position from lo that holds no white space, hi when there is none
TrimLo(text, lo, hi) ==
  IF lo < hi /\ lo \in text.spaces
  THEN CHOOSE n \in (lo + 1)..hi :
         /\ n = hi \/ n \notin text.spaces
         /\ \A m \in (lo + 1)..(n - 1) : m \in text.spaces
  ELSE lo
\* the end of the slice without its trailing white space
TrimHi(text, lo, hi) ==
  IF lo < hi /\ (hi - 1) \in text.spaces
  THEN CHOOSE n \in lo..(hi - 1) :
         /\ n = lo \/ (n - 1) \notin text.spaces
         /\ \A m \in n..(hi - 2) : m \in text.spaces
  ELSE hi

Min(a, b) == IF a <= b THEN a ELSE b

\* line 480 without the trim
PieceUntrimmed(text, i, size) ==
  [src |-> text.id, from |-> i, to |-> Min(i + size, text.len)]

\* line 480: text.slice(i, i + size).trim()
Piece(text, i, size) ==
  LET end == Min(i + size, text.len)
      lo == TrimLo(text, i, end)
  IN  [src |-> text.id, from |-> lo, to |-> TrimHi(text, lo, end)]

\* lines 477-484, the loop from position i on
RECURSIVE ChunksFrom(_, _, _, _)
ChunksFrom(text, i, size, overlap) ==
  IF i < text.len
  THEN LET piece == Piece(text, i, size)
       IN  (IF piece.to - piece.from > MinChunk THEN <<piece>> ELSE <<>>)
             \o ChunksFrom(text, i + (size - overlap), size, overlap)
  ELSE <<>>

chunkText(text, size, overlap) == ChunksFrom(text, 0, size, overlap)

\* The same loop, a step for its test and a step for its body: this is the
\* function when it is called with arguments of its own (the pages are
\* chunked with the defaults)
ChunkFrame(text, size, overlap) ==
  [fn |-> "chunkText", pc |-> "test", text |-> text, size |-> size,
   overlap |-> overlap, i |-> 0, chunks |-> <<>>]

\* line 479: i < text.length holds
ChunkTest(t) ==
  /\ Running(t, "chunkText", "test")
  /\ Top(t).i < Top(t).text.len
  /\ Goto(t, [Top(t) EXCEPT !.pc = "body"])
  /\ UNCHANGED <<CrawlFrameVars, faults, visited, browser, pages>>

\* lines 480-481, then i += size - overlap of line 479
ChunkBody(t) ==
  /\ Running(t, "chunkText", "body")
  /\ LET f == Top(t)
         piece == Piece(f.text, f.i, f.size)
     IN  Goto(t, [f EXCEPT
                    !.pc = "test",
                    !.chunks = IF piece.to - piece.from > MinChunk
                               THEN Append(@, piece) ELSE @,
                    !.i = @ + (f.size - f.overlap)])
  /\ UNCHANGED <<CrawlFrameVars, faults, visited, browser, pages>>

\* line 479 with i >= text.length, line 483
ChunkReturn(t) ==
  /\ Running(t, "chunkText", "test")
  /\ ~(Top(t).i < Top(t).text.len)
  /\ Pop(t, Returned(Top(t).chunks))
  /\ UNCHANGED <<CrawlFrameVars, faults, visited, browser, pages>>

\* -------------------------------------------------------------- scrapePage
ScrapeFrame(url) ==
  [fn |-> "scrapePage", pc |-> "newPage", url |-> url, page |-> 0, out |-> NoResult]

\* line 521 resolves; it is outside the try, so a rejection is thrown on
ScrapeNewPage(t) ==
  /\ Resolves(t, "scrapePage", "newPage")
  /\ LET f == Top(t) IN
       \/ /\ browser[t].state = "open"
          /\ Ok
          /\ OpenPage(t, f.url, "scrape")
          /\ Goto(t, [f EXCEPT !.pc = "goto", !.page = Len(pages) + 1])
       \/ /\ Fail
          /\ Pop(t, Thrown(Err("newPage")))
          /\ UNCHANGED pages
  /\ UNCHANGED <<CrawlFrameVars, visited, browser>>

\* line 523 resolves; a rejection goes through the finally block
ScrapeGoto(t) ==
  /\ Resolves(t, "scrapePage", "goto")
  /\ LET f == Top(t) IN
       \/ Ok /\ Goto(t, [f EXCEPT !.pc = "evaluate"])
       \/ Fail /\ Goto(t, [f EXCEPT !.pc = "finallyClose", !.out = Thrown(Err("goto"))])
  /\ UNCHANGED <<CrawlFrameVars, visited, browser, pages>>

\* lines 524-534: the text comes back and is chunked; then the finally block
ScrapeEvaluate(t) ==
  /\ Resolves(t, "scrapePage", "evaluate")
  /\ LET f == Top(t) IN
       \/ /\ Ok
          /\ ReadPage(f.page)
          /\ Goto(t, [f EXCEPT !.pc = "finallyClose",
                       !.out = Returned(chunkText(TextOf(f.url), DefaultSize, DefaultOverlap))])
       \/ /\ Fail
          /\ Goto(t, [f EXCEPT !.pc = "finallyClose", !.out = Thrown(Err("evaluate"))])
          /\ UNCHANGED pages
  /\ UNCHANGED <<CrawlFrameVars, visited, browser>>

\* (a page that is closed after a successful extraction only)
ScrapeCloseOnSuccess(t) ==
  /\ Resolves(t, "scrapePage", "finallyClose")
  /\ LET f == Top(t) IN
       IF f.out.kind = "throw"
       THEN /\ Pop(t, f.out)
            /\ UNCHANGED <<pages, faults>>
       ELSE /\ Ok
            /\ ClosePage(f.page)
            /\ Pop(t, f.out)
  /\ UNCHANGED <<CrawlFrameVars, visited, browser>>

\* lines 535-537: page.close() resolves and the pending outcome stands, or it
\* rejects and its error replaces the outcome
ScrapeFinallyClose(t) ==
  /\ Resolves(t, "scrapePage", "finallyClose")
  /\ LET f == Top(t) IN
       \/ /\ Ok
          /\ ClosePage(f.page)
          /\ Pop(t, f.out)
       \/ /\ Fail
          /\ ClosePageFailed(f.page)
          /\ Pop(t, Thrown(Err("close")))
  /\ UNCHANGED <<CrawlFrameVars, visited, browser>>

ScrapeStep(t) ==
  \/ ScrapeNewPage(t)
  \/ ScrapeGoto(t)
  \/ ScrapeEvaluate(t)
  \/ ScrapeFinallyClose(t)

\* --------------------------------------------------------------- embedText
\* what embed() can reject with: an API error carries statusCode, any other
\* error (or thrown value) does not; the message may say "exhausted"
ApiError(status, exhausted) ==
  [kind |-> "embed", hasStatus |-> TRUE, status |-> status, exhausted |-> exhausted]
PlainError(exhausted) ==
  [kind |-> "embed", hasStatus |-> FALSE, status |-> 0, exhausted |-> exhausted]
EmbedErrors ==
  {ApiError(StatusTooMany, FALSE), ApiError(500, TRUE), ApiError(500, FALSE),
   PlainError(TRUE), PlainError(FALSE)}

\* lines 547-549: the errors embedText sleeps on
Retryable(e) == e.hasStatus /\ (e.status = StatusTooMany \/ e.exhausted)

Vector(value) == <<"embedding", value>>

EmbedFrame(value, retries, delay) ==
  [fn |-> "embedText", pc |-> "entry", value |-> value, retries |-> retries,
   i |-> 0, delay |-> delay]

\* (a loop that stops one attempt early)
EmbedLoopShort(t, f) ==
  IF f.i + 1 < f.retries
  THEN /\ Goto(t, [f EXCEPT !.pc = "embed"])
       /\ nEmbed' = nEmbed + 1
  ELSE /\ Pop(t, Thrown(Err("maxRetries")))
       /\ UNCHANGED nEmbed

\* line 542 at loop index f.i: call embed(), or line 562 after the loop
EmbedLoop(t, f) ==
  IF f.i < f.retries
  THEN /\ Goto(t, [f EXCEPT !.pc = "embed"])
       /\ nEmbed' = nEmbed + 1
  ELSE /\ Pop(t, Thrown(Err("maxRetries")))
       /\ UNCHANGED nEmbed

EmbedEntry(t) ==
  /\ Running(t, "embedText", "entry")
  /\ EmbedLoop(t, Top(t))
  /\ sleeps' = [sleeps EXCEPT ![t] = <<>>]
  /\ UNCHANGED <<world, handlerVars, documents, faults, visited, browser, pages>>

\* line 544 resolves (545) or rejects (546-559)
EmbedResolve(t) ==
  /\ Resolves(t, "embedText", "embed")
  /\ LET f == Top(t) IN
       \/ /\ Ok
          /\ Pop(t, Returned(Vector(f.value)))
          /\ UNCHANGED sleeps
       \/ /\ Fail
          /\ \E e \in EmbedErrors :
               IF Retryable(e)
               THEN /\ Goto(t, [f EXCEPT !.pc = "sleep"])
                    /\ sleeps' = [sleeps EXCEPT ![t] = Append(@, [delay |-> f.delay, err |-> e])]
               ELSE /\ Pop(t, Thrown(e))
                    /\ UNCHANGED sleeps
  /\ UNCHANGED <<world, handlerVars, documents, nEmbed, visited, browser, pages>>

\* (a backoff that grows by the initial delay instead of doubling)
EmbedWakeLinear(t) ==
  /\ Resolves(t, "embedText", "sleep")
  /\ LET f == Top(t) IN
       EmbedLoop(t, [f EXCEPT !.delay = @ + sleeps[t][1].delay, !.i = @ + 1])
  /\ UNCHANGED <<world, handlerVars, documents, sleeps, faults, visited, browser, pages>>

\* line 551 resolves: delay *= 2, i++, and the loop goes on
EmbedWake(t) ==
  /\ Resolves(t, "embedText", "sleep")
  /\ LET f == Top(t) IN
       EmbedLoop(t, [f EXCEPT !.delay = @ * 2, !.i = @ + 1])
  /\ UNCHANGED <<world, handlerVars, documents, sleeps, faults, visited, browser, pages>>

EmbedStep(t) ==
  \/ EmbedEntry(t)
  \/ EmbedResolve(t)
  \/ EmbedWake(t)

\* ------------------------------------------------------- ensurePageIndexed
RowsOf(url) == SelectSeq(documents, LAMBDA row : row.url = url)

\* the snapshot a call keeps of the state it was called in
Snapshot(url) ==
  [had |-> RowsOf(url) # <<>>, documents |-> documents,
   pages |-> Len(pages), nEmbed |-> nEmbed]

\* lines 567-570 are issued when the function is called
EnsureFrame(url) ==
  [fn |-> "ensurePageIndexed", pc |-> "count", url |-> url, chunks |-> <<>>,
   i |-> 0, vector |-> <<>>, at |-> Snapshot(url)]

\* line 572: count && count > 0, count being null when the query failed
AlreadyIndexed(count) == ~count.null /\ count.n > 0

\* lines 575-580 at chunk i (from 0): embed it, or return
EnsureLoop(t, f) ==
  IF f.i < Len(f.chunks)
  THEN Call(t, [f EXCEPT !.pc = "awaitEmbed"],
            EmbedFrame(f.chunks[f.i + 1], DefaultRetries, DefaultDelay))
  ELSE Pop(t, Returned(<<>>))

\* lines 567-574: the count query resolves with a count or with an error
EnsureCount(t) ==
  /\ Resolves(t, "ensurePageIndexed", "count")
  /\ LET f == Top(t) IN
       \E count \in {[null |-> FALSE, n |-> Len(RowsOf(f.url))], [null |-> TRUE, n |-> 0]} :
         /\ IF count.null THEN Fail ELSE Ok
         /\ IF AlreadyIndexed(count)
            THEN Pop(t, Returned(<<>>))
            ELSE Call(t, [f EXCEPT !.pc = "awaitScrape"], ScrapeFrame(f.url))
  /\ UNCHANGED <<CrawlFrameVars, visited, browser, pages>>

\* line 574: scrapePage has ended; it is not in a try, so its error goes on
EnsureScraped(t) ==
  /\ Running(t, "ensurePageIndexed", "awaitScrape")
  /\ LET f == Top(t) IN
       IF result[t].kind = "return"
       THEN EnsureLoop(t, [f EXCEPT !.chunks = result[t].val, !.i = 0])
       ELSE Pop(t, result[t])
  /\ UNCHANGED <<CrawlFrameVars, faults, visited, browser, pages>>

\* lines 576-577: embedText has ended; the insert is issued
EnsureEmbedded(t) ==
  /\ Running(t, "ensurePageIndexed", "awaitEmbed")
  /\ LET f == Top(t) IN
       IF result[t].kind = "return"
       THEN Goto(t, [f EXCEPT !.pc = "insert", !.vector = result[t].val])
       ELSE Pop(t, result[t])
  /\ UNCHANGED <<CrawlFrameVars, faults, visited, browser, pages>>

\* line 577 resolves: the row is stored, or the store reports an error that
\* the code does not look at; the loop goes on either way
EnsureInsert(t) ==
  /\ Resolves(t, "ensurePageIndexed", "insert")
  /\ LET f == Top(t) IN
       /\ \/ /\ Ok
             /\ documents' = Append(documents,
                   [url |-> f.url, chunk_index |-> f.i,
                    text |-> f.chunks[f.i + 1], embedding |-> f.vector])
          \/ /\ Fail
             /\ UNCHANGED documents
       /\ EnsureLoop(t, [f EXCEPT !.i = @ + 1])
  /\ UNCHANGED <<world, handlerVars, nEmbed, sleeps, visited, browser, pages>>

EnsureStep(t) ==
  \/ EnsureCount(t)
  \/ EnsureScraped(t)
  \/ EnsureEmbedded(t)
  \/ EnsureInsert(t)

\* ------------------------------------------------------ ensurePagesIndexed
NoLog == [crawled |-> FALSE, urls |-> <<>>, tried |-> <<>>, caught |-> 0]

RunFrame(baseUrl) ==
  [fn |-> "ensurePagesIndexed", pc |-> "launch", baseUrl |-> baseUrl,
   urls |-> <<>>, i |-> 1, out |-> NoResult]

\* line 585 resolves and the crawl is called (587); launch is outside the try
RunLaunch(t) ==
  /\ Resolves(t, "ensurePagesIndexed", "launch")
  /\ LET f == Top(t) IN
       \/ /\ Ok
          /\ browser' = [browser EXCEPT ![t] = [state |-> "open", closes |-> 0]]
          /\ visited' = [visited EXCEPT ![t] = {}]
          /\ Call(t, [f EXCEPT !.pc = "awaitCrawl"], CrawlFrame(f.baseUrl, DefaultDepth))
       \/ /\ Fail
          /\ Pop(t, Thrown(Err("launch")))
          /\ UNCHANGED <<browser, visited>>
  /\ UNCHANGED <<CrawlFrameVars, pages>>

\* lines 589-593 at url i: index it, or leave the try for the finally block
RunLoop(t, f) ==
  LET caught == IF result[t].kind = "throw" THEN 1 ELSE 0 IN
  IF f.i <= Len(f.urls)
  THEN /\ Call(t, [f EXCEPT !.pc = "awaitIndex"], EnsureFrame(f.urls[f.i]))
       /\ indexLog' = [indexLog EXCEPT ![t].urls = f.urls, ![t].crawled = TRUE,
                                        ![t].tried = Append(@, f.urls[f.i]),
                                        ![t].caught = @ + caught]
  ELSE /\ Goto(t, [f EXCEPT !.pc = "finallyClose", !.out = Returned(<<>>)])
       /\ indexLog' = [indexLog EXCEPT ![t].urls = f.urls, ![t].crawled = TRUE,
                                        ![t].caught = @ + caught]

\* line 587: the crawl has ended; if it threw, the finally block runs
RunCrawled(t) ==
  /\ Running(t, "ensurePagesIndexed", "awaitCrawl")
  /\ LET f == Top(t) IN
       IF result[t].kind = "return"
       THEN RunLoop(t, [f EXCEPT !.urls = result[t].val, !.i = 1])
       ELSE /\ Goto(t, [f EXCEPT !.pc = "finallyClose", !.out = result[t]])
            /\ UNCHANGED indexLog
  /\ UNCHANGED <<world, userLeads, indexingStarted, documents, nEmbed, sleeps,
                 faults, visited, browser, pages>>

\* (a loop without the try/catch of line 590)
RunIndexedNoCatch(t) ==
  /\ Running(t, "ensurePagesIndexed", "awaitIndex")
  /\ LET f == Top(t) IN
       IF result[t].kind = "return"
       THEN RunLoop(t, [f EXCEPT !.i = @ + 1])
       ELSE /\ Goto(t, [f EXCEPT !.pc = "finallyClose", !.out = result[t]])
            /\ UNCHANGED indexLog
  /\ UNCHANGED <<world, userLeads, indexingStarted, documents, nEmbed, sleeps,
                 faults, visited, browser, pages>>

\* line 590: ensurePageIndexed has ended; an error is caught and logged
RunIndexed(t) ==
  /\ Running(t, "ensurePagesIndexed", "awaitIndex")
  /\ RunLoop(t, [Top(t) EXCEPT !.i = @ + 1])
  /\ UNCHANGED <<world, userLeads, indexingStarted, documents, nEmbed, sleeps,
                 faults, visited, browser, pages>>

\* (a finally block that leaves the browser open when the try block threw)
RunFinallyCloseOnSuccess(t) ==
  /\ Resolves(t, "ensurePagesIndexed", "finallyClose")
  /\ LET f == Top(t) IN
       IF f.out.kind = "throw"
       THEN /\ Pop(t, f.out)
            /\ UNCHANGED <<browser, faults>>
       ELSE /\ Ok
            /\ browser' = [browser EXCEPT ![t] = [state |-> "closed", closes |-> @.closes + 1]]
            /\ Pop(t, f.out)
  /\ UNCHANGED <<CrawlFrameVars, visited, pages>>

\* lines 593-595: browser.close() resolves and the pending outcome stands,
\* or it rejects and its error is the outcome
RunFinallyClose(t) ==
  /\ Resolves(t, "ensurePagesIndexed", "finallyClose")
  /\ LET f == Top(t) IN
       \/ /\ Ok
          /\ browser' = [browser EXCEPT ![t] = [state |-> "closed", closes |-> @.closes + 1]]
          /\ Pop(t, f.out)
       \/ /\ Fail
          /\ browser' = [browser EXCEPT ![t].closes = @ + 1]
          /\ Pop(t, Thrown(Err("browserClose")))
  /\ UNCHANGED <<CrawlFrameVars, visited, pages>>

RunStep(t) ==
  \/ RunLaunch(t)
  \/ RunCrawled(t)
  \/ RunIndexed(t)
  \/ RunFinallyClose(t)

\* everything a run task does
RunTaskStep(t) ==
  \/ RunStep(t)
  \/ CrawlStep(t)
  \/ EnsureStep(t)
  \/ ScrapeStep(t)
  \/ EmbedStep(t)

\* --------------------------------------------------------- searchDocuments
DefaultTopK == 5       \* searchDocuments(query, topK = 5)
PostTopK == 4          \* searchDocuments(lastUserText, 4)

\* lines 599-600: embedText(query) is called at once
SearchFrame(query, topK) ==
  [fn |-> "searchDocuments", pc |-> "awaitEmbed", query |-> query, topK |-> topK,
   queryEmb |-> <<>>]

\* the rows match_documents answers with: at most match_count of the stored
\* rows, in the store's order of relevance
Matches(k) == SubSeq(documents, 1, Min(k, Len(documents)))

\* what the rpc may answer without an error: the rows, or null data
RpcAnswers(k) ==
  {[null |-> FALSE, rows |-> Matches(k)], [null |-> TRUE, rows |-> <<>>]}

\* line 604: data ?? []
DataRows(data) == IF data.null THEN <<>> ELSE data.rows

\* the separator of line 604; a joined string is the sequence of its pieces,
\* the empty string the empty sequence
BlankLine == "\n\n"

\* (a join that leaves the separator out)
RECURSIVE JoinTextsBare(_)
JoinTextsBare(rows) ==
  IF rows = <<>> THEN <<>>
  ELSE <<Head(rows).text>> \o JoinTextsBare(Tail(rows))

\* line 604: .map(d => d.text).join("\n\n")
RECURSIVE JoinTexts(_)
JoinTexts(rows) ==
  IF rows = <<>> THEN <<>>
  ELSE IF Len(rows) = 1 THEN <<Head(rows).text>>
  ELSE <<Head(rows).text, BlankLine>> \o JoinTexts(Tail(rows))

\* line 600: embedText has ended; its error is thrown on, else the rpc goes out
SearchEmbedded(t) ==
  /\ Running(t, "searchDocuments", "awaitEmbed")
  /\ LET f == Top(t) IN
       IF result[t].kind = "return"
       THEN Goto(t, [f EXCEPT !.pc = "rpc", !.queryEmb = result[t].val])
       ELSE Pop(t, result[t])
  /\ UNCHANGED <<CrawlFrameVars, faults, visited, browser, pages>>

\* (a search that answers with the empty string when the store reports an error)
SearchRpcSwallows(t) ==
  /\ Resolves(t, "searchDocuments", "rpc")
  /\ LET f == Top(t) IN
       \/ /\ Ok
          /\ \E data \in RpcAnswers(f.topK) : Pop(t, Returned(JoinTexts(DataRows(data))))
       \/ Fail /\ Pop(t, Returned(<<>>))
  /\ UNCHANGED <<CrawlFrameVars, visited, browser, pages>>

\* lines 601-604: the rpc resolves with rows, or with an error that is thrown
SearchRpc(t) ==
  /\ Resolves(t, "searchDocuments", "rpc")
  /\ LET f == Top(t) IN
       \/ /\ Ok
          /\ \E data \in RpcAnswers(f.topK) : Pop(t, Returned(JoinTexts(DataRows(data))))
       \/ Fail /\ Pop(t, Thrown(Err("rpc")))
  /\ UNCHANGED <<CrawlFrameVars, visited, browser, pages>>

SearchStep(t) ==
  \/ SearchEmbedded(t)
  \/ SearchRpc(t)

\* ------------------------------------------------------------------- leads
\* A name or an e-mail address is a sequence of tokens: " " is white space,
\* "@" and "." are themselves, any other token is a run of other characters.
NameJane == <<"Jane", " ", "Doe">>
NameBlank == <<" ">>
EmailJane == <<"jane", "@", "example", ".", "com">>
EmailNot == <<"not-an-email">>
EmailNoDot == <<"jane", "@", "example">>

\* the fields of the form that the handler requires by name (lines 618-620)
Form(fullName, email) == [fullName |-> fullName, email |-> email]

\* String.prototype.trim
RECURSIVE TrimStart(_)
TrimStart(str) ==
  IF str # <<>> /\ Head(str) = " " THEN TrimStart(Tail(str)) ELSE str
RECURSIVE TrimEnd(_)
TrimEnd(str) ==
  IF str # <<>> /\ str[Len(str)] = " " THEN TrimEnd(Front(str)) ELSE str
Trim(str) == TrimEnd(TrimStart(str))

\* line 127: /^[^\s@]+@[^\s@]+\.[^\s@]+$/.test(value)
EmailRegexTest(value) ==
  /\ \A k \in DOMAIN value : value[k] # " "
  /\ \E at \in DOMAIN value :
       /\ value[at] = "@"
       /\ \A k \in DOMAIN value : value[k] = "@" => k = at
       /\ at > 1
       /\ \E dot \in (at + 2)..(Len(value) - 1) : value[dot] = "."

\* line 140: submitForm sends the form unless the name or the e-mail address
\* is blank; emailError (lines 127-132) is shown and stops nothing
SubmitFormSends(formData) ==
  ~(Trim(formData.fullName) = <<>> \/ Trim(formData.email) = <<>>)

\* line 772, z.string().email(): an address of the shape of line 127 that
\* neither starts nor ends with a dot
ZodEmail(value) ==
  /\ EmailRegexTest(value)
  /\ value[1] # "."
  /\ value[Len(value)] # "."

\* lines 770-781: the input schema of collectForm; fullName is z.string(),
\* which the empty string satisfies
CollectSchemaAccepts(data) == ZodEmail(data.email)

\* lines 641-642 (and 784-785): the row of user_leads; `by` and `r` say which
\* code stored it for which request
LeadRow(data, by, r) ==
  [name |-> data.fullName, email |-> data.email, by |-> by, r |-> r]

\* ---------------------------------------------------------------- messages
FormText == "Customer Follow-Up Form submitted"
NoForm == Form(<<>>, <<>>)
UserText(text) == [role |-> "user", text |-> text, hasForm |-> FALSE, form |-> NoForm]
UserForm(form) == [role |-> "user", text |-> FormText, hasForm |-> TRUE, form |-> form]
Assistant(text) == [role |-> "assistant", text |-> text, hasForm |-> FALSE, form |-> NoForm]

\* (the first user message instead of the last)
FirstUserIndex(messages) ==
  IF \E k \in DOMAIN messages : messages[k].role = "user"
  THEN CHOOSE k \in DOMAIN messages :
         /\ messages[k].role = "user"
         /\ \A j \in 1..(k - 1) : messages[j].role # "user"
  ELSE 0
\* line 616: [...messages].reverse().find(m => m.role === 'user'); 0 if none
LastUserIndex(messages) ==
  IF \E k \in DOMAIN messages : messages[k].role = "user"
  THEN CHOOSE k \in DOMAIN messages :
         /\ messages[k].role = "user"
         /\ \A j \in (k + 1)..Len(messages) : messages[j].role # "user"
  ELSE 0

\* lines 613-671: what the handler reads off the body: the form of the last
\* user message if it carries one (638-639), else its text (667-671; the
\* client sends no body.query)
Body(messages) ==
  LET k == LastUserIndex(messages) IN
    IF k # 0 /\ messages[k].hasForm
    THEN [kind |-> "form", text |-> messages[k].text, form |-> messages[k].form]
    ELSE IF k # 0 /\ messages[k].text # ""
    THEN [kind |-> "text", text |-> messages[k].text]
    ELSE [kind |-> "empty", text |-> ""]

\* -------------------------------------------------------------------- POST
SeedUrl == uS          \* 'https://www.techmurugan.in/' (line 676)
RunOf(t) == NReq + t

PostFrame(r) == [fn |-> "POST", pc |-> "json", r |-> r]

Response(status, context) == [status |-> status, context |-> context]

\* (a handler that forgets line 675)
IndexingStartedKept(started) == started
\* line 675: the value of indexingStarted after the guarded block has run
IndexingStartedSet(started) == TRUE

\* (a handler whose index-once block comes before the form branch)
PostJsonIndexFirst(t) ==
  /\ Resolves(t, "POST", "json")
  /\ \A r \in 1..(t - 1) : ~Running(r, "POST", "json")
  /\ LET f == Top(t)
         req == requests[f.r]
     IN
       \/ /\ Ok
          /\ indexingStarted' = TRUE
          /\ UNCHANGED result
          /\ stack' = [stack EXCEPT
               ![RunOf(t)] = IF ~indexingStarted THEN <<RunFrame(SeedUrl)>> ELSE @,
               ![t] = IF req.kind = "form"
                      THEN <<[f EXCEPT !.pc = "leadInsert"]>>
                      ELSE IF req.kind = "text"
                      THEN <<[f EXCEPT !.pc = "awaitSearch"],
                             SearchFrame(req.text, PostTopK),
                             EmbedFrame(req.text, DefaultRetries, DefaultDelay)>>
                      ELSE <<[f EXCEPT !.pc = "stream"]>>]
       \/ /\ Fail
          /\ Pop(t, Thrown(Err("json")))
          /\ UNCHANGED indexingStarted
  /\ UNCHANGED <<world, userLeads, indexLog, documents, nEmbed, sleeps, visited, browser, pages>>

\* lines 612-683: the body has arrived; the requests are numbered in the
\* order in which their bodies arrive.  A form goes to the user_leads insert;
\* anything else passes the index-once block (674-677) and then calls
\* searchDocuments (681) when there is text, or goes straight to the model.
PostJson(t) ==
  /\ Resolves(t, "POST", "json")
  /\ \A r \in 1..(t - 1) : ~Running(r, "POST", "json")
  /\ LET f == Top(t)
         req == requests[f.r]
     IN
       \/ /\ Ok
          /\ IF req.kind = "form"
             THEN /\ Goto(t, [f EXCEPT !.pc = "leadInsert"])
                  /\ UNCHANGED indexingStarted
             ELSE /\ indexingStarted' =
                       (IF ~indexingStarted THEN IndexingStartedSet(indexingStarted)
                        ELSE indexingStarted)
                  /\ UNCHANGED result
                  /\ stack' = [stack EXCEPT
                       ![RunOf(t)] = IF ~indexingStarted THEN <<RunFrame(SeedUrl)>> ELSE @,
                       ![t] = IF req.kind = "text"
                              THEN <<[f EXCEPT !.pc = "awaitSearch"],
                                     SearchFrame(req.text, PostTopK),
                                     EmbedFrame(req.text, DefaultRetries, DefaultDelay)>>
                              ELSE <<[f EXCEPT !.pc = "stream"]>>]
       \/ /\ Fail
          /\ Pop(t, Thrown(Err("json")))
          /\ UNCHANGED indexingStarted
  /\ UNCHANGED <<world, userLeads, indexLog, documents, nEmbed, sleeps, visited, browser, pages>>

\* lines 640-658: the insert resolves; 200 on success, 500 on a store error
PostLeadInsert(t) ==
  /\ Resolves(t, "POST", "leadInsert")
  /\ LET f == Top(t) IN
       \/ /\ Ok
          /\ userLeads' = Append(userLeads, LeadRow(requests[f.r].form, "POST", f.r))
          /\ Pop(t, Returned(Response(200, <<>>)))
       \/ /\ Fail
          /\ UNCHANGED userLeads
          /\ Pop(t, Returned(Response(500, <<>>)))
  /\ UNCHANGED <<world, indexingStarted, indexLog, documents, nEmbed, sleeps, visited, browser, pages>>

\* (a handler without the try/catch of lines 681-682)
PostSearchedNoCatch(t) ==
  /\ Running(t, "POST", "awaitSearch")
  /\ IF result[t].kind = "return"
     THEN Pop(t, Returned(Response(200, result[t].val)))
     ELSE Pop(t, result[t])
  /\ UNCHANGED <<CrawlFrameVars, faults, visited, browser, pages>>

\* (a handler that awaits the indexing run before it answers)
PostSearchedAfterRun(t) ==
  /\ Running(t, "POST", "awaitSearch")
  /\ \A u \in RunTasks : stack[u] = <<>>
  /\ Pop(t, Returned(Response(200, IF result[t].kind = "return" THEN result[t].val ELSE <<>>)))
  /\ UNCHANGED <<CrawlFrameVars, faults, visited, browser, pages>>

\* lines 681-802: searchDocuments has ended (its error is caught and logged);
\* the model is called with what was retrieved and the response is returned
PostSearched(t) ==
  /\ Running(t, "POST", "awaitSearch")
  /\ Pop(t, Returned(Response(200, IF result[t].kind = "return" THEN result[t].val ELSE <<>>)))
  /\ UNCHANGED <<CrawlFrameVars, faults, visited, browser, pages>>

\* lines 685-802 with no text to search for
PostStream(t) ==
  /\ Running(t, "POST", "stream")
  /\ Pop(t, Returned(Response(200, <<>>)))
  /\ UNCHANGED <<CrawlFrameVars, faults, visited, browser, pages>>

PostStep(t) ==
  \/ PostJson(t)
  \/ PostLeadInsert(t)
  \/ PostSearched(t)
  \/ PostStream(t)

\* everything a request task does
ReqTaskStep(t) ==
  \/ PostStep(t)
  \/ SearchStep(t)
  \/ EmbedStep(t)

\* ------------------------------------------------- streamText and its tools
\* lines 751-800.  The response of line 802 streams what streamText produces:
\* the language model answers in steps; a step is text (the answer ends) or a
\* call of a tool.  The input of a call is checked against the tool's
\* inputSchema before execute runs; what execute returns or throws goes back
\* to the model as the result of the call, and the next step follows.
NoDocuments == "No relevant documents found."

StreamFrame(r, context) ==
  [fn |-> "streamText", pc |-> "model", r |-> r, context |-> context,
   steps |-> 0, log |-> <<>>]

RetrieveFrame(query) == [fn |-> "retrieveDocument", pc |-> "awaitSearch", query |-> query]
CollectFrame(data, r) == [fn |-> "collectForm", pc |-> "insert", data |-> data, r |-> r]

\* the calls the language model may make
ToolForms ==
  {Form(NameJane, EmailJane), Form(<<>>, EmailJane), Form(NameJane, EmailNoDot)}
ToolCalls ==
  {[tool |-> "retrieveDocument", query |-> q] : q \in {"", "q2"}}
    \cup {[tool |-> "collectForm", data |-> d] : d \in ToolForms}

\* the stream is over: how it ended, after how many steps and tool calls
StreamEnd(f, finish) ==
  Returned([finish |-> finish, context |-> f.context, steps |-> f.steps,
            calls |-> Len(f.log)])

\* the tool calls made so far in the stream of request t, over or not
CallsOf(t) ==
  IF stack[t] # <<>> /\ stack[t][1].fn = "streamText" THEN Len(stack[t][1].log)
  ELSE IF stack[t] = <<>> /\ result[t].kind = "return" /\ "calls" \in DOMAIN result[t].val
  THEN result[t].val.calls
  ELSE 0
RECURSIVE CallsUpTo(_)
CallsUpTo(t) == IF t = 0 THEN 0 ELSE CallsOf(t) + CallsUpTo(t - 1)
ToolCallsMade == CallsUpTo(NReq)

\* the handler has returned the streaming response (line 802): the stream of
\* that response is read
StreamStart(t) ==
  /\ stack[t] = <<>>
  /\ requests[t].kind # "form"
  /\ result[t].kind = "return"
  /\ "status" \in DOMAIN result[t].val
  /\ stack' = [stack EXCEPT ![t] = <<StreamFrame(t, result[t].val.context)>>]
  /\ UNCHANGED <<CrawlFrameVars, faults, result, visited, browser, pages>>

\* a step of the model arrives: text, a tool call, or an error of the model
StreamModel(t) ==
  /\ Resolves(t, "streamText", "model")
  /\ LET f == Top(t)
         g == [f EXCEPT !.steps = @ + 1]
     IN
       \/ /\ Ok
          /\ Pop(t, StreamEnd(g, "stop"))
       \/ /\ Ok
          /\ ToolCallsMade < MaxToolCalls
          /\ \E call \in ToolCalls :
               IF call.tool = "retrieveDocument"
               THEN \* lines 762-763: query || lastUserText
                    LET q == IF call.query # "" THEN call.query ELSE requests[f.r].text IN
                    /\ stack' = [stack EXCEPT ![t] =
                         <<[g EXCEPT !.pc = "awaitTool", !.log = Append(@, [call |-> call])],
                           RetrieveFrame(q), SearchFrame(q, PostTopK),
                           EmbedFrame(q, DefaultRetries, DefaultDelay)>>]
                    /\ UNCHANGED result
               ELSE IF CollectSchemaAccepts(call.data)
               THEN Call(t, [g EXCEPT !.pc = "awaitTool", !.log = Append(@, [call |-> call])],
                         CollectFrame(call.data, f.r))
               ELSE \* the input is refused: execute does not run
                    LET h == [g EXCEPT !.log = Append(@, [call |-> call, invalid |-> TRUE])] IN
                    IF h.steps >= StepLimit THEN Pop(t, StreamEnd(h, "steps"))
                    ELSE Goto(t, h)
       \/ /\ Fail
          /\ Pop(t, StreamEnd(g, "error"))
  /\ UNCHANGED <<CrawlFrameVars, visited, browser, pages>>

\* lines 763-764: searchDocuments has ended inside retrieveDocument
RetrieveSearched(t) ==
  /\ Running(t, "retrieveDocument", "awaitSearch")
  /\ IF result[t].kind = "return"
     THEN Pop(t, Returned(IF result[t].val # <<>> THEN result[t].val ELSE <<NoDocuments>>))
     ELSE Pop(t, result[t])
  /\ UNCHANGED <<CrawlFrameVars, faults, visited, browser, pages>>

\* lines 783-796: the insert of collectForm resolves
CollectInsert(t) ==
  /\ Resolves(t, "collectForm", "insert")
  /\ LET f == Top(t) IN
       \/ /\ Ok
          /\ userLeads' = Append(userLeads, LeadRow(f.data, "collectForm", f.r))
          /\ Pop(t, Returned(<<"Thanks", f.data.fullName>>))
       \/ /\ Fail
          /\ UNCHANGED userLeads
          /\ Pop(t, Thrown(Err("leadInsert")))
  /\ UNCHANGED <<world, indexingStarted, indexLog, documents, nEmbed, sleeps, visited, browser, pages>>

\* the tool has returned or thrown: its result is logged for the model, and
\* the next step follows unless the step limit is reached
StreamToolDone(t) ==
  /\ Running(t, "streamText", "awaitTool")
  /\ LET f == Top(t)
         n == Len(f.log)
         h == [f EXCEPT !.log[n] = [call |-> f.log[n].call, outcome |-> result[t]]]
     IN
       IF h.steps >= StepLimit THEN Pop(t, StreamEnd(h, "steps"))
       ELSE Goto(t, [h EXCEPT !.pc = "model"])
  /\ UNCHANGED <<CrawlFrameVars, faults, visited, browser, pages>>

StreamStep(t) ==
  \/ StreamStart(t)
  \/ StreamModel(t)
  \/ RetrieveSearched(t)
  \/ CollectInsert(t)
  \/ StreamToolDone(t)

\* nothing of the request handler is in play
Idle ==
  /\ requests = [r \in 1..NReq |-> [kind |-> "text"]]
  /\ userLeads = <<>>
  /\ indexingStarted = FALSE
  /\ indexLog = [t \in Tasks |-> NoLog]

\* ------------------------------------------------- crawl alone (harness)
CrawlInit ==
  /\ site \in DOMAIN Webs \ {"lone"}
  /\ content = "short"
  /\ documents = <<>>
  /\ nEmbed = 0
  /\ sleeps = [t \in Tasks |-> <<>>]
  /\ Idle
  /\ faults = MaxFaults
  /\ \E url \in {uS, uA}, depth \in 0..MaxDepth :
       /\ driver = [fn |-> "crawlSiteRecursive", url |-> url, depth |-> depth]
       /\ stack = [t \in Tasks |-> IF t = T0 THEN <<CrawlFrame(url, depth)>> ELSE <<>>]
  /\ result = [t \in Tasks |-> NoResult]
  /\ visited = [t \in Tasks |-> {}]
  /\ browser = [t \in Tasks |-> IF t = T0 THEN [state |-> "open", closes |-> 0] ELSE NoBrowser]
  /\ pages = <<>>

CrawlNext == CrawlStep(T0)
CrawlSpec == CrawlInit /\ [][CrawlNext]_vars /\ WF_vars(CrawlNext)

\* --------------------------------------------- embedText alone (harness)
EmbedInit ==
  /\ site = "chain"
  /\ content = "short"
  /\ documents = <<>>
  /\ nEmbed = 0
  /\ sleeps = [t \in Tasks |-> <<>>]
  /\ Idle
  /\ \E retries \in (0..MaxRetries) \cup {DefaultRetries}, delay \in {DefaultDelay, 1} :
       /\ driver = [fn |-> "embedText", retries |-> retries, delay |-> delay]
       /\ faults = retries
       /\ stack = [t \in Tasks |-> IF t = T0 THEN <<EmbedFrame("q", retries, delay)>> ELSE <<>>]
  /\ result = [t \in Tasks |-> NoResult]
  /\ visited = [t \in Tasks |-> {}]
  /\ browser = [t \in Tasks |-> NoBrowser]
  /\ pages = <<>>

EmbedNext == EmbedStep(T0)
EmbedSpec == EmbedInit /\ [][EmbedNext]_vars /\ WF_vars(EmbedNext)

\* a row as ensurePageIndexed stores it
Row(url, i) ==
  LET chunk == chunkText(TextOf(url), DefaultSize, DefaultOverlap)[i + 1]
  IN  [url |-> url, chunk_index |-> i, text |-> chunk, embedding |-> Vector(chunk)]

\* --------------------- ensurePageIndexed twice on one URL (harness)
CallerFrame(url) == [fn |-> "caller", pc |-> "first", url |-> url]

IndexInit ==
  /\ site = "chain"
  /\ content \in DOMAIN Texts
  /\ \/ documents = <<>>
     \/ documents = <<Row(uA, 0)>>
     \/ content # "short" /\ documents = <<Row(uS, 0)>>
  /\ nEmbed = 0
  /\ sleeps = [t \in Tasks |-> <<>>]
  /\ driver = [fn |-> "ensurePageIndexed"]
  /\ Idle
  /\ faults = MaxFaults
  /\ result = [t \in Tasks |-> NoResult]
  /\ visited = [t \in Tasks |-> {}]
  /\ browser = [t \in Tasks |-> IF t = T0 THEN [state |-> "open", closes |-> 0] ELSE NoBrowser]
  /\ pages = <<>>
  /\ stack = [t \in Tasks |-> IF t = T0 THEN <<CallerFrame(uS), EnsureFrame(uS)>> ELSE <<>>]

\* the first call has ended, however it ended: the caller calls again
CallerSecond(t) ==
  /\ Running(t, "caller", "first")
  /\ Call(t, [Top(t) EXCEPT !.pc = "second"], EnsureFrame(Top(t).url))
  /\ UNCHANGED <<CrawlFrameVars, faults, visited, browser, pages>>

\* the second call has ended
CallerDone(t) ==
  /\ Running(t, "caller", "second")
  /\ Pop(t, result[t])
  /\ UNCHANGED <<CrawlFrameVars, faults, visited, browser, pages>>

IndexNext ==
  \/ CallerSecond(T0)
  \/ CallerDone(T0)
  \/ EnsureStep(T0)
  \/ ScrapeStep(T0)
  \/ EmbedStep(T0)
IndexSpec == IndexInit /\ [][IndexNext]_vars /\ WF_vars(IndexNext)

\* ------------------------------------- ensurePagesIndexed alone (harness)
RunInit ==
  /\ site \in {"chain", "diamond"}
  /\ content = "one"
  /\ documents = <<>>
  /\ nEmbed = 0
  /\ sleeps = [t \in Tasks |-> <<>>]
  /\ driver = [fn |-> "ensurePagesIndexed"]
  /\ Idle
  /\ faults = MaxFaults
  /\ stack = [t \in Tasks |-> IF t = T0 THEN <<RunFrame(uS)>> ELSE <<>>]
  /\ result = [t \in Tasks |-> NoResult]
  /\ visited = [t \in Tasks |-> {}]
  /\ browser = [t \in Tasks |-> NoBrowser]
  /\ pages = <<>>

RunNext == RunTaskStep(T0)
RunSpec == RunInit /\ [][RunNext]_vars /\ WF_vars(RunNext)

\* ---------------------------------------- searchDocuments alone (harness)
\* the rows a store may hold, in any order of relevance
StoreRows == {Row(uS, 0), Row(uS, 1), Row(uA, 0)}
Stores ==
  {d \in UNION {[1..n -> StoreRows] : n \in 0..MaxRows} : NoDuplicates(d)}

SearchInit ==
  /\ site = "chain"
  /\ content = "two"
  /\ documents \in Stores
  /\ nEmbed = 0
  /\ sleeps = [t \in Tasks |-> <<>>]
  /\ Idle
  /\ faults = MaxFaults
  /\ \E topK \in {1, PostTopK, DefaultTopK} :
       /\ driver = [fn |-> "searchDocuments", topK |-> topK]
       /\ stack = [t \in Tasks |->
                     IF t = T0
                     THEN <<SearchFrame("q", topK), EmbedFrame("q", DefaultRetries, DefaultDelay)>>
                     ELSE <<>>]
  /\ result = [t \in Tasks |-> NoResult]
  /\ visited = [t \in Tasks |-> {}]
  /\ browser = [t \in Tasks |-> NoBrowser]
  /\ pages = <<>>

SearchNext == SearchStep(T0) \/ EmbedStep(T0)
SearchSpec == SearchInit /\ [][SearchNext]_vars /\ WF_vars(SearchNext)

\* ------------------------------------------------ chunkText alone (harness)
\* the positions a, ..., b - 1
Interval(a, b) == a..(b - 1)
TextLens == {0, 3, 55, 120}
\* where windows of the smaller sizes meet
Seams == {60}
\* a text of len characters with white space at its ends and around the seams
PaddedText(len, a, b, c, d) ==
  LET sp == (Interval(0, a) \cup Interval(len - b, len)
               \cup UNION {Interval(m - c, m + d) : m \in Seams})
              \cap Interval(0, len)
  IN  [id |-> <<len, sp>>, len |-> len, spaces |-> sp]
BlankText(len) == [id |-> <<len, Interval(0, len)>>, len |-> len, spaces |-> Interval(0, len)]
ChunkTexts ==
  {PaddedText(len, a, b, c, d) : len \in TextLens, a \in 0..MaxPad, b \in 0..MaxPad,
                                 c \in 0..MaxPad, d \in 0..MaxPad}
    \cup {BlankText(len) : len \in TextLens}
ChunkSizes == {20, 60, 100}
ChunkOverlaps == {0, 20, 50, 60}

\* The calls made.  With overlap = size the position never moves; the calls
\* with overlap >= size that are left out are those whose state grows
\* without end (chunks when a window is long enough to be pushed, the
\* position when overlap > size makes it run below 0).
ChunkCalls(text) ==
  {c \in ChunkSizes \X ChunkOverlaps :
     \/ c[2] < c[1]
     \/ c[2] = c[1] /\ (c[1] <= MinChunk \/ text.len <= MinChunk)}

ChunkCalled(text, size, overlap) ==
  /\ driver = [fn |-> "chunkText", text |-> text, size |-> size, overlap |-> overlap]
  /\ stack = [t \in Tasks |-> IF t = T0 THEN <<ChunkFrame(text, size, overlap)>> ELSE <<>>]

ChunkInit ==
  /\ site = "chain"
  /\ content = "short"
  /\ documents = <<>>
  /\ nEmbed = 0
  /\ sleeps = [t \in Tasks |-> <<>>]
  /\ Idle
  /\ faults = 0
  /\ \/ \E text \in ChunkTexts : \E c \in ChunkCalls(text) : ChunkCalled(text, c[1], c[2])
     \/ \E id \in DOMAIN Texts : ChunkCalled(Texts[id], DefaultSize, DefaultOverlap)
  /\ result = [t \in Tasks |-> NoResult]
  /\ visited = [t \in Tasks |-> {}]
  /\ browser = [t \in Tasks |-> NoBrowser]
  /\ pages = <<>>

ChunkNext == ChunkTest(T0) \/ ChunkBody(T0) \/ ChunkReturn(T0)
ChunkSpec == ChunkInit /\ [][ChunkNext]_vars /\ WF_vars(ChunkNext)

\* ------------------------------------------ one conversation (harness)
\* The user takes NReq turns: a turn submits the form or sends a text.  The
\* POST of a turn carries the whole history, and the user takes the next
\* turn when the answer to the last one is complete.
Forms ==
  {Form(n, e) : n \in {NameJane, NameBlank, <<>>}, e \in {EmailJane, EmailNot, <<>>}}

\* the messages of the POST of turn r
RECURSIVE History(_, _, _)
History(turns, form, r) ==
  IF r = 0 THEN <<>>
  ELSE (IF r = 1 THEN <<>> ELSE History(turns, form, r - 1) \o <<Assistant("answer")>>)
         \o <<IF turns[r] = "form" THEN UserForm(form) ELSE UserText("q")>>

\* the answer to request r is complete
Answered(r) ==
  /\ Done(r)
  /\ (requests[r].kind # "form" /\ result[r].kind = "return")
       => "finish" \in DOMAIN result[r].val

ChatInit ==
  /\ site = "lone"
  /\ content = "one"
  /\ documents \in {<<>>, <<Row(uS, 0)>>}
  /\ nEmbed = 0
  /\ sleeps = [t \in Tasks |-> <<>>]
  /\ \E turns \in [1..NReq -> {"form", "text"}], form \in Forms :
       /\ SubmitFormSends(form)
       /\ driver = [fn |-> "chat", turns |-> turns, form |-> form]
       /\ requests = [r \in 1..NReq |-> Body(History(turns, form, r))]
  /\ userLeads = <<>>
  /\ indexingStarted = FALSE
  /\ indexLog = [t \in Tasks |-> NoLog]
  /\ faults = SysFaults
  /\ stack = [t \in Tasks |-> IF t = 1 THEN <<PostFrame(t)>> ELSE <<>>]
  /\ result = [t \in Tasks |-> NoResult]
  /\ visited = [t \in Tasks |-> {}]
  /\ browser = [t \in Tasks |-> NoBrowser]
  /\ pages = <<>>

\* the answers to the earlier turns are complete: the POST of turn t is sent
NextTurn(t) ==
  /\ t > 1
  /\ stack[t] = <<>>
  /\ result[t] = NoResult
  /\ \A r \in 1..(t - 1) : Answered(r)
  /\ stack' = [stack EXCEPT ![t] = <<PostFrame(t)>>]
  /\ UNCHANGED <<CrawlFrameVars, faults, result, visited, browser, pages>>

\* (the indexing run that the first text request starts stays pending here: its
\* steps, interleaved with the requests, are those of Spec)
\* (the client sends no blank text, line 80: no request is without a text
\* to search for, and PostStream has no part here)
ChatNext ==
  \E t \in ReqTasks :
    \/ NextTurn(t)
    \/ PostJson(t)
    \/ PostLeadInsert(t)
    \/ PostSearched(t)
    \/ SearchStep(t)
    \/ EmbedStep(t)
    \/ StreamStep(t)

ChatSpec ==
  /\ ChatInit
  /\ [][ChatNext]_vars
  /\ WF_vars(ChatNext)

\* ------------------------------------------------------------ the process
Bodies ==
  {[kind |-> "text", text |-> "q"], [kind |-> "empty", text |-> ""],
   [kind |-> "form", text |-> FormText, form |-> Form(NameJane, EmailJane)]}

Init ==
  /\ site = "lone"
  /\ content = "one"
  /\ documents = <<>>
  /\ nEmbed = 0
  /\ sleeps = [t \in Tasks |-> <<>>]
  /\ driver = [fn |-> "POST"]
  /\ requests \in [1..NReq -> Bodies]
  /\ userLeads = <<>>
  /\ indexingStarted = FALSE
  /\ indexLog = [t \in Tasks |-> NoLog]
  /\ faults = SysFaults
  /\ stack = [t \in Tasks |-> IF t \in ReqTasks THEN <<PostFrame(t)>> ELSE <<>>]
  /\ result = [t \in Tasks |-> NoResult]
  /\ visited = [t \in Tasks |-> {}]
  /\ browser = [t \in Tasks |-> NoBrowser]
  /\ pages = <<>>

Next ==
  \/ \E t \in ReqTasks : ReqTaskStep(t)
  \/ \E t \in RunTasks : RunTaskStep(t)

Spec ==
  /\ Init
  /\ [][Next]_vars
  /\ \A t \in ReqTasks : WF_vars(ReqTaskStep(t))
  /\ \A t \in RunTasks : WF_vars(RunTaskStep(t))

\* ======================================================== crawlSiteRecursive
CrawlPagesOf(t, u) ==
  {p \in DOMAIN pages : pages[p].task = t /\ pages[p].by = "crawl" /\ pages[p].url = u}

CrawlOpensOnce == \A u \in Hrefs : Cardinality(CrawlPagesOf(T0, u)) <= 1

\* every list a crawlSiteRecursive call has returned, the top-level one included
CrawlResultDistinct == result[T0].kind = "return" => NoDuplicates(result[T0].val)

\* C1: on every web (cycles and self-links included) and for every depth >= 0
\* the crawl ends, no URL is opened twice during it, and no list it returns
\* holds a URL twice.
C1_CrawlTerminatesOnce ==
  /\ [](CrawlOpensOnce /\ CrawlResultDistinct)
  /\ <>Done(T0)

\* a crawl of the cyclic web from the seed that has returned all three pages
C1_Witness ==
  /\ site = "cycle"
  /\ Done(T0)
  /\ result[T0] = Returned(<<uS, uA, uB>>)
  /\ Len(pages) = 3

\* C8: a failure of newPage, goto or evaluate for a URL makes the crawl of
\* that URL return [] and never throw, so no crawlSiteRecursive call throws
\* and the URLs whose own pages were read and closed are still returned.
C8_FailureContained ==
  /\ result[T0].kind # "throw"
  /\ Done(T0) =>
       \A p \in DOMAIN pages :
         (pages[p].read /\ pages[p].closes = 1 /\ ~pages[p].open)
           => pages[p].url \in Range(result[T0].val)

\* ================================================================ embedText
RECURSIVE Pow2(_)
Pow2(k) == IF k <= 0 THEN 1 ELSE 2 * Pow2(k - 1)

EmbedOutcome ==
  Done(T0) =>
    \/ /\ result[T0] = Returned(Vector("q"))
       /\ nEmbed = Len(sleeps[T0]) + 1
       /\ nEmbed <= driver.retries
    \/ /\ result[T0] = Thrown(Err("maxRetries"))
       /\ nEmbed = driver.retries
       /\ Len(sleeps[T0]) = driver.retries
    \/ /\ result[T0].kind = "throw"
       /\ result[T0].val \in EmbedErrors
       /\ ~Retryable(result[T0].val)
       /\ nEmbed = Len(sleeps[T0]) + 1

\* C5: embedText ends, and ends in one of three ways: with the embedding on
\* attempt N <= retries after N-1 rate-limited attempts, with the
\* retries-exhausted error after exactly `retries` embed calls that were all
\* rate-limited, or with a non-retryable error.
C5_EmbedRetryBudget ==
  /\ []EmbedOutcome
  /\ <>Done(T0)

\* the embedding came on the third attempt of three
C5_Witness ==
  /\ Done(T0)
  /\ driver.retries = 3
  /\ result[T0].kind = "return"
  /\ Len(sleeps[T0]) = 2

SleepsDouble ==
  \A k \in DOMAIN sleeps[T0] : sleeps[T0][k].delay = driver.delay * Pow2(k - 1)

DelayStep ==
  (stack[T0] # <<>> /\ stack'[T0] # <<>> /\ Top(T0).delay # Top(T0)'.delay)
    => (Top(T0).pc = "sleep" /\ Top(T0)'.delay = 2 * Top(T0).delay)

\* C6: the k-th sleep of an embedText call lasts delay * 2^(k-1), and delay
\* changes only when a sleep after a rate-limited attempt is over.
C6_BackoffDoubles ==
  /\ []SleepsDouble
  /\ [][DelayStep]_vars

\* three sleeps of the default delay: 2000, 4000, 8000
C6_Witness ==
  /\ driver.delay = DefaultDelay
  /\ Len(sleeps[T0]) = 3

\* a rate-limit/quota-exceeded signal, as the claim reads it
QuotaSignal(e) == e.status = StatusTooMany \/ e.exhausted

\* C7: embedText sleeps and retries exactly on the rate-limit/quota signals:
\* every error it slept on is one, and no such signal is thrown on to the
\* caller (while attempts remain it is retried, after the last attempt the
\* retries-exhausted error is thrown instead).
C7_RetryIffQuota ==
  /\ \A k \in DOMAIN sleeps[T0] : QuotaSignal(sleeps[T0][k].err)
  /\ (result[T0].kind = "throw" /\ result[T0].val.kind = "embed")
       => ~QuotaSignal(result[T0].val)

\* ======================================================== ensurePageIndexed
EnsureFrames(t) ==
  {k \in DOMAIN stack[t] : stack[t][k].fn = "ensurePageIndexed"}

\* since the call that frame k of task t stands for was made: no row was
\* stored, no page was opened and embed() was not called
NoEffectSince(t, k) ==
  LET at == stack[t][k].at IN
    /\ documents = at.documents
    /\ Len(pages) = at.pages
    /\ nEmbed = at.nEmbed

\* C3: a call of ensurePageIndexed for a url that had a row in the store when
\* it was made opens no page, calls no embedding and stores nothing.
C3_IndexedIsNoOp ==
  \A k \in EnsureFrames(T0) : stack[T0][k].at.had => NoEffectSince(T0, k)

\* C4: the second of two calls in sequence on one url stores nothing (it is a
\* no-op), whatever the embedding and store calls of the two answered.
C4_SecondCallNoOp ==
  \A k \in EnsureFrames(T0) :
    stack[T0][1].pc = "second" => documents = stack[T0][k].at.documents

\* ======================================================= ensurePagesIndexed
IsPrefix(xs, ys) == Len(xs) <= Len(ys) /\ xs = SubSeq(ys, 1, Len(xs))

\* C9: every url the crawl returned gets its ensurePageIndexed call, in crawl
\* order, also after calls for earlier urls threw: the urls tried so far are
\* the first ones of the crawl's list, and all of them once the run is over.
C9_EveryUrlTried ==
  \A t \in RunTasks :
    indexLog[t].crawled =>
      /\ IsPrefix(indexLog[t].tried, indexLog[t].urls)
      /\ Running(t, "ensurePagesIndexed", "awaitIndex") => Len(indexLog[t].tried) = Top(t).i
      /\ Done(t) => indexLog[t].tried = indexLog[t].urls

\* a run that caught an indexing error for a url and still indexed a later one
C9_Witness ==
  /\ Done(T0)
  /\ indexLog[T0].caught >= 1
  /\ indexLog[T0].tried = <<uS, uA, uB>>
  /\ RowsOf(uS) = <<>>
  /\ RowsOf(uA) # <<>>

\* C10: the browser a run launched gets exactly one close() call on every way
\* out of the run, and once close() has been called the run does nothing
\* more (so it opens no page on the closed browser).
C10_BrowserClosedOnce ==
  \A t \in RunTasks :
    /\ browser[t].closes <= 1
    /\ (Done(t) /\ browser[t].state # "none") => browser[t].closes = 1
    /\ browser[t].closes > 0 => Done(t)
    /\ \A p \in DOMAIN pages : pages[p].task = t => browser[t].state # "none"

\* a run whose crawl threw, with the browser closed once
C10_Witness ==
  /\ Done(T0)
  /\ ~indexLog[T0].crawled
  /\ result[T0] = Thrown(Err("close"))
  /\ browser[T0] = [state |-> "closed", closes |-> 1]

\* ===================================================== indexingStarted, POST
\* the run tasks on which an ensurePagesIndexed promise was ever started
Launches == {t \in RunTasks : stack[t] # <<>> \/ result[t].kind # "none"}

\* C2: however the requests of one process interleave at their awaits,
\* ensurePagesIndexed is launched at most once; indexingStarted is true from
\* that launch on and is never set back to false, also after the launched
\* run has thrown.
C2_LaunchedAtMostOnce ==
  /\ [](Cardinality(Launches) <= 1 /\ (indexingStarted <=> Launches # {}))
  /\ [][indexingStarted => indexingStarted']_vars

\* two requests passed the index-once block, the run the first one launched
\* has thrown, and the flag is still set
C2_Witness ==
  /\ indexingStarted
  /\ \A r \in ReqTasks : Done(r) /\ requests[r].kind # "form"
  /\ \E t \in RunTasks : Launches = {t} /\ Done(t) /\ result[t].kind = "throw"

\* =============================================================== scrapePage
\* the scrapePage call that opened page p is still running
ScrapeBusy(p) ==
  \E k \in DOMAIN stack[pages[p].task] :
    /\ stack[pages[p].task][k].fn = "scrapePage"
    /\ stack[pages[p].task][k].page = p

\* C11: the page scrapePage opened gets exactly one close() call before
\* scrapePage returns or throws (after the extraction, after a failed goto and
\* after a failed evaluate alike), and none while the call is still at work.
C11_ScrapePageClosedOnce ==
  \A p \in DOMAIN pages :
    pages[p].by = "scrape" =>
      /\ pages[p].closes <= 1
      /\ ~ScrapeBusy(p) => pages[p].closes = 1
      /\ ScrapeBusy(p) => pages[p].closes = 0

\* a scrapePage call whose goto or evaluate rejected has thrown that error,
\* its page closed
C11_Witness ==
  /\ result[T0].kind = "throw"
  /\ result[T0].val.kind \in {"goto", "evaluate"}
  /\ \E p \in DOMAIN pages :
       /\ pages[p].by = "scrape"
       /\ ~ScrapeBusy(p)
       /\ ~pages[p].read
       /\ pages[p].open = FALSE
       /\ pages[p].closes = 1

\* ===================================================== POST while indexing
\* an ensurePagesIndexed run is in progress
RunInProgress == \E u \in RunTasks : stack[u] # <<>>

\* the event loop can go on with request task t: its continuation is a
\* queued microtask, or no microtask is queued and the call it awaits may
\* resolve (the bodies arrive in the order of the request numbers)
ReqTurn(t) ==
  /\ stack[t] # <<>>
  /\ \/ Top(t).pc \in MicrotaskPcs
     \/ /\ Quiet
        /\ Top(t).pc = "json" => \A r \in 1..(t - 1) : ~Running(r, "POST", "json")

\* C12: no request waits for the indexing run: while a run is in progress,
\* every request the event loop can go on with has a step to take (retrieval,
\* the model call, the response), whatever the state of the run.
C12_QueryNeverWaits ==
  \A t \in ReqTasks : (RunInProgress /\ ReqTurn(t)) => ENABLED ReqTaskStep(t)

\* the request that launched the run was answered, with nothing retrieved,
\* while the run was still at work and had stored no row; no call had failed
C12_Witness ==
  /\ \E t \in ReqTasks :
       /\ requests[t].kind = "text"
       /\ Done(t)
       /\ result[t] = Returned(Response(200, <<>>))
       /\ stack[RunOf(t)] # <<>>
  /\ documents = <<>>
  /\ faults = SysFaults

\* ==================================================================== leads
\* C13: every row of user_leads has a name that is not empty and an e-mail
\* address of valid syntax (line 127), whichever way it came in: a lead
\* without them is refused before the store is written.
C13_LeadValidated ==
  \A k \in DOMAIN userLeads :
    /\ userLeads[k].name # <<>>
    /\ EmailRegexTest(userLeads[k].email)

\* the rows the form branch of the handler stored for request r
PostRows(r) ==
  {k \in DOMAIN userLeads : userLeads[k].by = "POST" /\ userLeads[k].r = r}

\* C14: the POST of a turn that submits the form makes one insert: it stores
\* exactly one row when it answers 200 and none otherwise; the POST of a text
\* turn stores no row through the form branch, also when an earlier message
\* of its history carries the form.
C14_OneLeadPerSubmission ==
  \A r \in ReqTasks :
    /\ Cardinality(PostRows(r)) <= 1
    /\ driver.turns[r] = "text" => PostRows(r) = {}
    /\ (driver.turns[r] = "form" /\ Done(r)) =>
         IF result[r] = Returned(Response(200, <<>>))
         THEN \E k \in PostRows(r) :
                /\ userLeads[k].name = driver.form.fullName
                /\ userLeads[k].email = driver.form.email
         ELSE PostRows(r) = {}

\* the form was submitted in the first turn, a text sent in the second: both
\* are answered, the form is in the history of the second POST, one row
C14_Witness ==
  /\ driver.turns[1] = "form"
  /\ driver.turns[2] = "text"
  /\ Answered(1)
  /\ Answered(2)
  /\ Len(userLeads) = 1
  /\ PostRows(1) = {1}

\* ========================================================== searchDocuments
\* the rows the store answers with in the state searchDocuments was tried in
Answer == Matches(driver.topK)

C16_SearchThrows ==
  Done(T0) =>
    /\ result[T0].kind = "return" => faults + Len(sleeps[T0]) = MaxFaults
    /\ result[T0].kind = "throw" =>
         result[T0].val \in EmbedErrors \cup {Err("rpc"), Err("maxRetries")}

\* the rpc reported an error and searchDocuments threw it
C16_Witness ==
  /\ Done(T0)
  /\ result[T0] = Thrown(Err("rpc"))
  /\ documents # <<>>

\* ======================================================= retrieval failures
\* no request ends with an error unless its body could not be read, and a
\* handler that has returned its response has called the language model
RequestsAnswered ==
  \A t \in ReqTasks :
    /\ (Done(t) /\ result[t].kind = "throw") => result[t].val = Err("json")
    /\ (Done(t) /\ requests[t].kind # "form" /\ result[t].kind = "return"
          /\ "status" \in DOMAIN result[t].val)
         => (result[t].val.status = 200 /\ ENABLED StreamStart(t))

\* the step that follows a searchDocuments call that threw
AfterSearchThrew ==
  \A t \in ReqTasks :
    (result[t].kind = "throw" /\ stack'[t] # stack[t]) =>
      /\ Running(t, "POST", "awaitSearch") =>
           result'[t] = Returned(Response(200, <<>>))
      /\ Running(t, "streamText", "awaitTool") =>
           \/ stack'[t] # <<>> /\ Top(t)'.fn = "streamText" /\ Top(t)'.pc = "model"
           \/ stack'[t] = <<>> /\ result'[t].val.finish = "steps"

Emitted ==
  IF stack[T0] # <<>> THEN Top(T0).chunks
  ELSE IF result[T0].kind = "return" THEN result[T0].val ELSE <<>>

\* piece is what trimming the window of text that starts at i leaves
TrimmedWindow(piece, text, i, size) ==
  LET end == IF i + size < text.len THEN i + size ELSE text.len
  IN  /\ i <= piece.from /\ piece.from < piece.to /\ piece.to <= end
      /\ piece.from \notin text.spaces
      /\ (piece.to - 1) \notin text.spaces
      /\ \A n \in Interval(i, piece.from) \cup Interval(piece.to, end) : n \in text.spaces

WindowStarts(text, size, overlap) ==
  {i \in Interval(0, text.len) : i % (size - overlap) = 0}

\* the loop and the function the pages are chunked with are one function
ChunkLoopIsChunkText ==
  (Done(T0) /\ driver.overlap < driver.size)
    => result[T0] = Returned(chunkText(driver.text, driver.size, driver.overlap))

\* C18: with overlap < size every segment chunkText emits is a window of at
\* most size characters, trimmed, and longer than 50 characters once trimmed;
\* an empty or white-space-only text gives no segment.
C18_SegmentsAreTrimmedWindows ==
  driver.overlap < driver.size =>
    /\ \A k \in DOMAIN Emitted :
         /\ Emitted[k].to - Emitted[k].from > MinChunk
         /\ Emitted[k].to - Emitted[k].from <= driver.size
         /\ \E i \in WindowStarts(driver.text, driver.size, driver.overlap) :
              TrimmedWindow(Emitted[k], driver.text, i, driver.size)
    /\ driver.text.spaces = Interval(0, driver.text.len) => Emitted = <<>>
    /\ ChunkLoopIsChunkText

\* a call returned two segments, the first cut at both ends by the trim
C18_Witness ==
  /\ Done(T0)
  /\ driver.overlap < driver.size
  /\ Len(result[T0].val) = 2
  /\ result[T0].val[1].from > 0
  /\ result[T0].val[1].to < driver.size

\* ------------------------------------------------------------------- C19
\* C19: a call of chunkText with overlap >= size on a non-empty text ends
\* (by a rejection or with a clamped step).
C19_OverlapNotBelowSizeEnds ==
  (driver.overlap >= driver.size /\ driver.text.len > 0) ~> Done(T0)

\* ------------------------------------------------------------------- C20
\* no call of ensurePageIndexed is under way
NoPassUnderWay == stack[T0] = <<>> \/ Top(T0).fn = "caller"

\* C20: after an indexing pass of a page, finished or aborted, the k rows
\* stored for the URL have the chunk_index values 0..k-1 and row i holds the
\* i-th chunk of the page in extraction order.
C20_ChunkIndexContiguous ==
  NoPassUnderWay =>
    \A url \in {uS, uA} :
      LET rows == RowsOf(url)
          chunks == chunkText(TextOf(url), DefaultSize, DefaultOverlap)
      IN  \A k \in DOMAIN rows :
            /\ rows[k].chunk_index = k - 1
            /\ k <= Len(chunks)
            /\ rows[k].text = chunks[k]

\* ------------------------------------------------------------------- C21
\* the pages crawlSiteRecursive has opened
CrawlPages == {p \in DOMAIN pages : pages[p].by = "crawl"}

\* C21: every URL the crawl opens, recurses into or returns has the origin
\* of the seed URL; an URL that only begins with the text of that origin,
\* or a link of a page that has redirected elsewhere, is not one of them.
C21_SameOriginOnly ==
  /\ \A p \in CrawlPages : Origin(pages[p].url) = Origin(driver.url)
  /\ \A u \in visited[T0] : Origin(u) = Origin(driver.url)
  /\ (Done(T0) /\ result[T0].kind = "return")
       => \A k \in DOMAIN result[T0].val : Origin(result[T0].val[k]) = Origin(driver.url)

\* ------------------------------------------------------------------- C23
\* the links the crawl of page u follows
LinksOf(u) == Range(ExtractLinks(Document(u).loc, Document(u).hrefs))

\* the URLs that a chain of at most n links leads to from the URLs in from
RECURSIVE Within(_, _)
Within(from, n) ==
  IF n <= 0 THEN from
  ELSE Within(from \cup UNION {LinksOf(u) : u \in from}, n - 1)

\* the URLs reached from the seed by fewer than maxDepth links
InDepth(seed, maxDepth) == IF maxDepth <= 0 THEN {} ELSE Within({seed}, maxDepth - 1)

\* what the crawl under way has opened, visited and returned
CrawlTouched ==
  {pages[p].url : p \in CrawlPages} \cup visited[T0]
    \cup (IF Done(T0) /\ result[T0].kind = "return" THEN Range(result[T0].val) ELSE {})

\* C23: the crawl opens, visits and returns only URLs that fewer than
\* maxDepth links lead to from the seed (with maxDepth = 2 the seed and the
\* links of the seed page); with depth <= 0 it opens no page and adds
\* nothing to the visited set.
C23_DepthBoundsCrawl ==
  /\ CrawlTouched \subseteq InDepth(driver.url, driver.depth)
  /\ driver.depth <= 0 => (pages = <<>> /\ visited[T0] = {})

\* the crawl of the chain from the seed with the default depth has ended
\* with the seed and its link; b, two links away, was left alone
C23_Witness ==
  /\ site = "chain"
  /\ driver.url = uS
  /\ driver.depth = DefaultDepth
  /\ Done(T0)
  /\ result[T0] = Returned(<<uS, uA>>)
  /\ uB \notin visited[T0]

\* ------------------------------------------------------------------- C24
\* no navigation of the crawl has failed
NoFailure == faults = MaxFaults

CrawlHeld == {p \in CrawlPages : pages[p].closes = 0}

C22_UrlChunkIndexUnique ==
  \A i, j \in DOMAIN documents :
    (documents[i].url = documents[j].url
       /\ documents[i].chunk_index = documents[j].chunk_index) => i = j

\* ------------------------------------------------------------------- C26
\* the requests whose last user message carries a form
FormRequests == {r \in ReqTasks : requests[r].kind = "form"}

\* a form request runs the handler only, and ends with the answer of the
\* lead insert (or with the error of a body that could not be read)
FormRequestPlain ==
  \A r \in FormRequests :
    /\ \A k \in DOMAIN stack[r] : stack[r][k].fn = "POST"
    /\ Done(r) => \/ result[r] \in {Returned(Response(200, <<>>)), Returned(Response(500, <<>>))}
                  \/ result[r] = Thrown(Err("json"))

\* a step of a form request leaves the flag, the runs, the embedding calls
\* and the documents table as they were
FormRequestFrame ==
  \A r \in FormRequests :
    stack'[r] # stack[r] =>
      /\ indexingStarted' = indexingStarted
      /\ \A t \in RunTasks : stack'[t] = stack[t]
      /\ nEmbed' = nEmbed
      /\ documents' = documents

\* C26: a POST whose last user message carries a form returns after the lead
\* insert, with 200 or with 500: it leaves indexingStarted unchanged, launches
\* no indexing run, retrieves nothing and calls no language model.
C26_FormTouchesNothingElse ==
  /\ []FormRequestPlain
  /\ [][FormRequestFrame]_vars

\* a conversation of two form submissions, one answered 500 and one 200,
\* after which nothing was indexed, embedded or launched
C26_Witness ==
  /\ FormRequests = ReqTasks
  /\ \A r \in ReqTasks : Done(r)
  /\ \E r \in ReqTasks : result[r] = Returned(Response(500, <<>>))
  /\ \E r \in ReqTasks : result[r] = Returned(Response(200, <<>>))
  /\ ~indexingStarted
  /\ Launches = {}
  /\ nEmbed = 0

\* ------------------------------------------------------------------- C27
\* when the call of frame f was made an aborted pass had left some of the
\* rows of its url in the store, and not all of them
PartlyIndexedAt(f) ==
  LET had == Len(SelectSeq(f.at.documents, LAMBDA row : row.url = f.url))
  IN  0 < had /\ had < Len(chunkText(TextOf(f.url), DefaultSize, DefaultOverlap))

\* C27: after a pass that stored at least one row of a page and then aborted,
\* every later call of ensurePageIndexed for that url is a no-op: the chunks
\* that were not stored are never stored.
C27_PartialPageStaysPartial ==
  \A k \in EnsureFrames(T0) :
    PartlyIndexedAt(stack[T0][k]) => NoEffectSince(T0, k)

====
